---- MODULE Spec2Model ----
(***************************************************************************)
(* Collaborative filtering kernel of 14-recommender-systems.ipynb:         *)
(* gradient_descent (lines 78-86) and cost (lines 88-91), modelled line by *)
(* line over numpy float arrays.                                           *)
(*                                                                         *)
(* A float is a record: a finite value (an integer here; the inputs and    *)
(* the learning rates of the model are integers, on which float arithmetic *)
(* is exact), an infinity with its sign, or NaN.  A finite result whose    *)
(* magnitude exceeds FloatMax overflows to an infinity, as IEEE-754 does   *)
(* at the largest double.                                                  *)
(***************************************************************************)
EXTENDS Integers, Sequences, FiniteSets, TLC

\* ------------------------------------------------------------------ bounds
FloatMax == 1000000000
MaxSteps == 2
MaxCalls == 2

\* ------------------------------------------------------------ float values
Fin(n) == [cls |-> "fin", v |-> n]
PInf == [cls |-> "inf", v |-> 1]
NInf == [cls |-> "inf", v |-> -1]
NaN == [cls |-> "nan", v |-> 0]

Abs(n) == IF n < 0 THEN -n ELSE n
Sign(n) == IF n < 0 THEN -1 ELSE IF n > 0 THEN 1 ELSE 0
Max(a, b) == IF a >= b THEN a ELSE b

IsNaN(a) == a.cls = "nan"
IsFinite(a) == a.cls = "fin"
InfOf(s) == IF s > 0 THEN PInf ELSE NInf

\* rounding of an exact result to the float range
Round(n) == IF n > FloatMax THEN PInf ELSE IF n < -FloatMax THEN NInf ELSE Fin(n)

FNeg(a) == IF a.cls = "nan" THEN NaN ELSE [a EXCEPT !.v = -a.v]

FAdd(a, b) ==
  IF a.cls = "nan" \/ b.cls = "nan" THEN NaN
  ELSE IF a.cls = "inf" /\ b.cls = "inf" THEN (IF a.v = b.v THEN a ELSE NaN)
  ELSE IF a.cls = "inf" THEN a
  ELSE IF b.cls = "inf" THEN b
  ELSE Round(a.v + b.v)

FSub(a, b) == FAdd(a, FNeg(b))

FMul(a, b) ==
  IF a.cls = "nan" \/ b.cls = "nan" THEN NaN
  ELSE IF a.cls = "inf" \/ b.cls = "inf"
       THEN (IF Sign(a.v) * Sign(b.v) = 0 THEN NaN ELSE InfOf(Sign(a.v) * Sign(b.v)))
  ELSE IF a.v = 0 \/ b.v = 0 THEN Fin(0)
  ELSE IF Abs(a.v) > FloatMax \div Abs(b.v) THEN InfOf(Sign(a.v) * Sign(b.v))
  ELSE Fin(a.v * b.v)

\* ---------------------------------------------------------- numpy 2-D arrays
Null == << >>
Rows(m) == Len(m)
Cols(m) == Len(m[1])

Transpose(m) == [j \in 1..Cols(m) |-> [i \in 1..Rows(m) |-> m[i][j]]]

RECURSIVE DotSum(_, _, _, _, _)
DotSum(a, b, i, j, n) ==
  IF n = 1 THEN FMul(a[i][1], b[1][j])
  ELSE FAdd(DotSum(a, b, i, j, n - 1), FMul(a[i][n], b[n][j]))

\* a @ b, defined when Cols(a) = Rows(b)
MatMul(a, b) == [i \in 1..Rows(a) |-> [j \in 1..Cols(b) |-> DotSum(a, b, i, j, Cols(a))]]

\* numpy broadcasting of two 2-D operands
BcastOK(a, b) ==
  /\ (Rows(a) = Rows(b) \/ Rows(a) = 1 \/ Rows(b) = 1)
  /\ (Cols(a) = Cols(b) \/ Cols(a) = 1 \/ Cols(b) = 1)
Bcast(m, i, j) == m[IF Rows(m) = 1 THEN 1 ELSE i][IF Cols(m) = 1 THEN 1 ELSE j]

MAdd(a, b) ==
  [i \in 1..Max(Rows(a), Rows(b)) |-> [j \in 1..Max(Cols(a), Cols(b)) |->
     FAdd(Bcast(a, i, j), Bcast(b, i, j))]]
MSub(a, b) ==
  [i \in 1..Max(Rows(a), Rows(b)) |-> [j \in 1..Max(Cols(a), Cols(b)) |->
     FSub(Bcast(a, i, j), Bcast(b, i, j))]]

\* scalar * array
Scale(s, m) == [i \in 1..Rows(m) |-> [j \in 1..Cols(m) |-> FMul(Fin(s), m[i][j])]]

\* an in-place  a -= d  needs d to broadcast to the shape of a
FitsInto(d, a) ==
  /\ (Rows(d) = Rows(a) \/ Rows(d) = 1)
  /\ (Cols(d) = Cols(a) \/ Cols(d) = 1)

\* tmp[np.isnan(tmp)] = 0
MaskNaN(m) == [i \in 1..Rows(m) |-> [j \in 1..Cols(m) |->
                 IF IsNaN(m[i][j]) THEN Fin(0) ELSE m[i][j]]]

RECURSIVE SumRow(_, _)
SumRow(r, n) == IF n = 0 THEN Fin(0) ELSE FAdd(SumRow(r, n - 1), r[n])
RECURSIVE SumTo(_, _)
SumTo(m, n) == IF n = 0 THEN Fin(0) ELSE FAdd(SumTo(m, n - 1), SumRow(m[n], Len(m[n])))
\* (tmp ** 2).sum()
SumSq(m) ==
  SumTo([i \in 1..Rows(m) |-> [j \in 1..Cols(m) |-> FMul(m[i][j], m[i][j])]], Rows(m))

\* 0.5 * s : the finite value num/2
Half(s) == [cls |-> s.cls, v |-> s.v, den |-> 2]
NoCost == [cls |-> "none", v |-> 0, den |-> 1]

\* --------------------------------------------------- the two functions' lines
\* An activation: the arrays the arguments refer to, the scalar arguments and
\* the locals.  exc is the exception that ended it ("" while none).
Raise(f) == [f EXCEPT !.exc = "ValueError"]

\* line 80 taking a missing rating for the rating 0
S80_fillZero(f) ==
  IF Cols(f.theta) # Cols(f.x) THEN Raise(f)
  ELSE LET p == MatMul(f.theta, Transpose(f.x))
       IN IF ~BcastOK(p, f.y) THEN Raise(f)
          ELSE [f EXCEPT !.tmp = MSub(p, MaskNaN(f.y))]

\* line 80:  tmp = theta @ x.T - y
S80(f) ==
  IF Cols(f.theta) # Cols(f.x) THEN Raise(f)
  ELSE LET p == MatMul(f.theta, Transpose(f.x))
       IN IF ~BcastOK(p, f.y) THEN Raise(f)
          ELSE [f EXCEPT !.tmp = MSub(p, f.y)]

\* line 81 masking by the missing entries of y instead of the NaNs of tmp
S81_byY(f) ==
  [f EXCEPT !.tmp = [i \in 1..Rows(f.tmp) |-> [j \in 1..Cols(f.tmp) |->
                       IF IsNaN(Bcast(f.y, i, j)) THEN Fin(0) ELSE f.tmp[i][j]]]]

\* line 81:  tmp[np.isnan(tmp)] = 0
S81(f) == [f EXCEPT !.tmp = MaskNaN(f.tmp)]

\* line 82:  dx = tmp.T @ theta + beta * x
S82(f) ==
  LET t == Transpose(f.tmp)
  IN IF Cols(t) # Rows(f.theta) THEN Raise(f)
     ELSE LET p == MatMul(t, f.theta)
              q == Scale(f.beta, f.x)
          IN IF ~BcastOK(p, q) THEN Raise(f)
             ELSE [f EXCEPT !.dx = MAdd(p, q)]

\* line 83 reading the x that line 84 is about to store
S83_newx(f) ==
  LET xn == MSub(f.x, Scale(f.alpha, f.dx))
  IN IF Cols(f.tmp) # Rows(xn) THEN Raise(f)
     ELSE LET p == MatMul(f.tmp, xn)
              q == Scale(f.beta, f.theta)
          IN IF ~BcastOK(p, q) THEN Raise(f)
             ELSE [f EXCEPT !.dtheta = MAdd(p, q)]

\* line 83 without the regularization term
S83_noreg(f) ==
  IF Cols(f.tmp) # Rows(f.x) THEN Raise(f)
  ELSE [f EXCEPT !.dtheta = MatMul(f.tmp, f.x)]

\* line 83:  dtheta = tmp @ x + beta * theta
S83(f) ==
  IF Cols(f.tmp) # Rows(f.x) THEN Raise(f)
  ELSE LET p == MatMul(f.tmp, f.x)
           q == Scale(f.beta, f.theta)
       IN IF ~BcastOK(p, q) THEN Raise(f)
          ELSE [f EXCEPT !.dtheta = MAdd(p, q)]

\* line 84:  x -= alpha * dx
S84(f) ==
  LET d == Scale(f.alpha, f.dx)
  IN IF ~FitsInto(d, f.x) THEN Raise(f)
     ELSE [f EXCEPT !.x = MSub(f.x, d)]

\* line 85:  theta -= alpha * dtheta
S85(f) ==
  LET d == Scale(f.alpha, f.dtheta)
  IN IF ~FitsInto(d, f.theta) THEN Raise(f)
     ELSE [f EXCEPT !.theta = MSub(f.theta, d)]

\* line 89:  tmp = theta @ x.T - y
S89(f) ==
  IF Cols(f.theta) # Cols(f.x) THEN Raise(f)
  ELSE LET p == MatMul(f.theta, Transpose(f.x))
       IN IF ~BcastOK(p, f.y) THEN Raise(f)
          ELSE [f EXCEPT !.tmp = MSub(p, f.y)]

\* line 90 also clearing the missing ratings of y itself
S90_clearY(f) == [f EXCEPT !.tmp = MaskNaN(f.tmp), !.y = MaskNaN(f.y)]

\* line 90:  tmp[np.isnan(tmp)] = 0
S90(f) == [f EXCEPT !.tmp = MaskNaN(f.tmp)]

\* line 91:  return 0.5 * (tmp ** 2).sum()
S91(f) == Half(SumSq(f.tmp))

\* one pass through the loop body (lines 80-85); an exception ends it
Then(f, g) == IF f.exc # "" THEN f ELSE g
StepOf(f) ==
  LET a == S80(f)
      b == Then(a, S81(a))
      c == Then(b, S82(b))
      d == Then(c, S83(c))
      e == Then(d, S84(d))
  IN Then(e, S85(e))

\* gradient_descent run for n passes (lines 79-86); an exception ends the call
RECURSIVE GdOf(_, _)
GdOf(f, n) ==
  IF n <= 0 \/ f.exc # "" THEN f ELSE GdOf(StepOf(f), n - 1)

\* cost(theta, x, y) as a value: the number returned, or NoCost when it raises
CostOf(f) ==
  LET a == S89([f EXCEPT !.exc = ""])
  IN IF a.exc # "" THEN NoCost ELSE S91(S90(a))

\* ------------------------------------------------------------------- state
VARIABLES
  theta, x, y,            \* the three arrays
  alpha, beta,            \* hyper-parameters the caller passes on every call (line 137)
  max_iter, it,           \* argument and loop counter of gradient_descent
  tmp, dx, dtheta,        \* locals of the running function
  exc,                    \* exception raised by the last call, "" if none
  J,                      \* value returned by the last cost call
  pc, fn,                 \* position; function called last ("gd", "cost", "none")
  calls, steps,           \* calls made, loop passes completed (all calls)
  applied,                \* history: loop passes completed by the current call
  thetaIn, xIn,           \* history: theta, x when the current call was made
  thetaOld, xOld,         \* history: theta, x when the current loop pass began
  y0,                     \* history: y of the initial state
  sw,                     \* history: the run with theta and x swapped and y transposed
  theta0, x0,             \* history: theta, x of the initial state
  requested,              \* history: passes asked for by the calls made so far
  alt                     \* history: the run whose theta differs in the rows of the
                          \*          users without any rating

vars == <<theta, x, y, alpha, beta, max_iter, it, tmp, dx, dtheta, exc, J, pc, fn,
          calls, steps, applied, thetaIn, xIn, thetaOld, xOld, y0, sw,
          theta0, x0, requested, alt>>

Cur == [theta |-> theta, x |-> x, y |-> y, max_iter |-> max_iter, alpha |-> alpha,
        beta |-> beta, tmp |-> tmp, dx |-> dx, dtheta |-> dtheta, exc |-> exc]

Store(f) ==
  /\ theta' = f.theta /\ x' = f.x /\ y' = f.y
  /\ tmp' = f.tmp /\ dx' = f.dx /\ dtheta' = f.dtheta
  /\ exc' = f.exc

\* leaving a function drops its locals
Leave(f) == [f EXCEPT !.tmp = Null, !.dx = Null, !.dtheta = Null]

AllFinite(m) == \A i \in 1..Rows(m) : \A j \in 1..Cols(m) : IsFinite(m[i][j])

\* ------------------------------------------------------------------ inputs
Mats(r, c, V) == [1..r -> [1..c -> V]]
Const(r, c, v) == [i \in 1..r |-> [j \in 1..c |-> v]]

FinVals == {Fin(0), Fin(1)}
RatingVals == {Fin(1), NaN}
WildVals == {Fin(0), Fin(1), PInf, NaN}
Dims == {1, 2}
Alphas == {-1, 0, 1}
Betas == {-1, 0, 1}
MaxIters == (-1)..MaxSteps

\* user u has no rating at all
AllMissing(yy, u) == \A i \in 1..Cols(yy) : IsNaN(yy[u][i])

\* th with other values in the rows of the users without any rating
AltEntry == Fin(3)
AltTheta(th, yy) ==
  [u \in 1..Rows(th) |->
     IF u <= Rows(yy) /\ AllMissing(yy, u) THEN [k \in 1..Cols(th) |-> AltEntry]
     ELSE th[u]]

\* users x items ratings with two latent factor matrices of matching shape
InitMatched ==
  \E sh \in {<<2, 2, 1>>, <<2, 1, 1>>, <<1, 1, 2>>} :
    /\ theta \in Mats(sh[1], sh[3], FinVals)
    /\ x \in Mats(sh[2], sh[3], FinVals)
    /\ y \in Mats(sh[1], sh[2], RatingVals)

\* arrays of any shapes
InitShapes ==
  \E tr \in Dims, tc \in Dims, xr \in Dims, xc \in Dims, yr \in Dims, yc \in Dims :
    /\ theta = Const(tr, tc, Fin(1))
    /\ x = Const(xr, xc, Fin(1))
    /\ y = Const(yr, yc, Fin(2))

\* factor matrices a diverged run leaves behind
InitWild ==
  /\ theta \in Mats(1, 1, WildVals)
  /\ x \in Mats(1, 1, WildVals)
  /\ y \in Mats(1, 1, {Fin(0), Fin(1), NaN})

Init ==
  /\ (InitMatched \/ InitShapes \/ InitWild)
  /\ alpha \in Alphas /\ beta \in Betas
  /\ max_iter = 0 /\ it = 0
  /\ tmp = Null /\ dx = Null /\ dtheta = Null
  /\ exc = "" /\ J = NoCost
  /\ pc = "idle" /\ fn = "none"
  /\ calls = 0 /\ steps = 0 /\ applied = 0
  /\ thetaIn = theta /\ xIn = x /\ thetaOld = theta /\ xOld = x
  /\ y0 = y
  /\ sw = [theta |-> x, x |-> theta, y |-> Transpose(y), max_iter |-> 0,
           alpha |-> alpha, beta |-> beta, tmp |-> Null, dx |-> Null,
           dtheta |-> Null, exc |-> ""]
  /\ theta0 = theta /\ x0 = x /\ requested = 0
  /\ alt = [theta |-> AltTheta(theta, y), x |-> x, y |-> y, max_iter |-> 0,
            alpha |-> alpha, beta |-> beta, tmp |-> Null, dx |-> Null,
            dtheta |-> Null, exc |-> ""]

\* ----------------------------------------------------------------- actions
\* line 78 with a loop counter that survives from one call to the next
GdCall_keepCounter ==
  /\ pc = "idle" /\ calls < MaxCalls
  /\ \E mi \in MaxIters :
       /\ steps + Max(mi, 0) <= MaxSteps
       /\ max_iter' = mi
       /\ sw' = [sw EXCEPT !.max_iter = mi, !.exc = ""]
       /\ alt' = [alt EXCEPT !.max_iter = mi, !.exc = ""]
       /\ requested' = requested + Max(mi, 0)
  /\ it' = it /\ exc' = "" /\ J' = NoCost
  /\ pc' = "g79" /\ fn' = "gd"
  /\ calls' = calls + 1 /\ applied' = 0
  /\ thetaIn' = theta /\ xIn' = x
  /\ UNCHANGED <<theta, x, y, alpha, beta, tmp, dx, dtheta, steps, thetaOld, xOld, y0,
                 theta0, x0>>

\* line 78: gradient_descent(theta, x, y, max_iter=mi, alpha, beta) is called
GdCall ==
  /\ pc = "idle" /\ calls < MaxCalls
  /\ \E mi \in MaxIters :
       /\ steps + Max(mi, 0) <= MaxSteps
       /\ max_iter' = mi
       /\ sw' = [sw EXCEPT !.max_iter = mi, !.exc = ""]
       /\ alt' = [alt EXCEPT !.max_iter = mi, !.exc = ""]
       /\ requested' = requested + Max(mi, 0)
  /\ it' = 0 /\ exc' = "" /\ J' = NoCost
  /\ pc' = "g79" /\ fn' = "gd"
  /\ calls' = calls + 1 /\ applied' = 0
  /\ thetaIn' = theta /\ xIn' = x
  /\ UNCHANGED <<theta, x, y, alpha, beta, tmp, dx, dtheta, steps, thetaOld, xOld, y0,
                 theta0, x0>>

AllZero(m) == \A i \in 1..Rows(m) : \A j \in 1..Cols(m) : m[i][j] = Fin(0)

\* line 79 with a convergence test: the loop also ends once the residual is zero
G79_converged ==
  /\ pc = "g79"
  /\ IF it < max_iter /\ ~(it > 0 /\ AllZero(tmp))
     THEN pc' = "g80" /\ thetaOld' = theta /\ xOld' = x
     ELSE pc' = "g86" /\ UNCHANGED <<thetaOld, xOld>>
  /\ UNCHANGED <<theta, x, y, alpha, beta, max_iter, it, tmp, dx, dtheta, exc, J, fn,
                 calls, steps, applied, thetaIn, xIn, y0, sw,
                 theta0, x0, requested, alt>>

\* line 79: for _ in range(max_iter)
G79 ==
  /\ pc = "g79"
  /\ IF it < max_iter
     THEN pc' = "g80" /\ thetaOld' = theta /\ xOld' = x
     ELSE pc' = "g86" /\ UNCHANGED <<thetaOld, xOld>>
  /\ UNCHANGED <<theta, x, y, alpha, beta, max_iter, it, tmp, dx, dtheta, exc, J, fn,
                 calls, steps, applied, thetaIn, xIn, y0, sw,
                 theta0, x0, requested, alt>>

\* a line of the loop body: it completes, or raises and ends the call
Line(f, next) ==
  /\ IF f.exc # ""
     THEN /\ Store(Leave(f)) /\ pc' = "idle"
          /\ sw' = Leave(StepOf(sw)) /\ alt' = Leave(StepOf(alt))
     ELSE Store(f) /\ pc' = next /\ sw' = sw /\ alt' = alt
  /\ UNCHANGED <<alpha, beta, max_iter, it, J, fn, calls, steps, applied,
                 thetaIn, xIn, thetaOld, xOld, y0, theta0, x0, requested>>

G80 == pc = "g80" /\ Line(S80(Cur), "g81")
G81 == pc = "g81" /\ Line(S81(Cur), "g82")
G82 == pc = "g82" /\ Line(S82(Cur), "g83")
G83 == pc = "g83" /\ Line(S83(Cur), "g84")
G84 == pc = "g84" /\ Line(S84(Cur), "g85")

\* line 85 ends the pass
G85 ==
  /\ pc = "g85"
  /\ LET f == S85(Cur)
     IN IF f.exc # ""
        THEN /\ Store(Leave(f)) /\ pc' = "idle"
             /\ sw' = Leave(StepOf(sw)) /\ alt' = Leave(StepOf(alt))
             /\ UNCHANGED <<it, steps, applied>>
        ELSE /\ Store(f) /\ pc' = "g79"
             /\ sw' = StepOf(sw) /\ alt' = StepOf(alt)
             /\ it' = it + 1 /\ steps' = steps + 1 /\ applied' = applied + 1
  /\ UNCHANGED <<alpha, beta, max_iter, J, fn, calls, thetaIn, xIn, thetaOld, xOld,
                 y0, theta0, x0, requested>>

\* line 86: return theta, x
G86 ==
  /\ pc = "g86"
  /\ Store(Leave(Cur)) /\ pc' = "idle" /\ sw' = Leave(sw) /\ alt' = Leave(alt)
  /\ UNCHANGED <<alpha, beta, max_iter, it, J, fn, calls, steps, applied,
                 thetaIn, xIn, thetaOld, xOld, y0, theta0, x0, requested>>

\* line 88: cost(theta, x, y) is called
CostCall ==
  /\ pc = "idle" /\ fn # "cost"
  /\ pc' = "c89" /\ fn' = "cost"
  /\ exc' = "" /\ J' = NoCost
  /\ thetaIn' = theta /\ xIn' = x
  /\ UNCHANGED <<theta, x, y, alpha, beta, max_iter, it, tmp, dx, dtheta, calls, steps,
                 applied, thetaOld, xOld, y0, sw, theta0, x0, requested, alt>>

C89 ==
  /\ pc = "c89"
  /\ LET f == S89(Cur)
     IN IF f.exc # "" THEN Store(Leave(f)) /\ pc' = "idle"
                      ELSE Store(f) /\ pc' = "c90"
  /\ UNCHANGED <<alpha, beta, max_iter, it, J, fn, calls, steps, applied, thetaIn, xIn,
                 thetaOld, xOld, y0, sw, theta0, x0, requested, alt>>

C90 ==
  /\ pc = "c90"
  /\ Store(S90(Cur)) /\ pc' = "c91"
  /\ UNCHANGED <<alpha, beta, max_iter, it, J, fn, calls, steps, applied, thetaIn, xIn,
                 thetaOld, xOld, y0, sw, theta0, x0, requested, alt>>

C91 ==
  /\ pc = "c91"
  /\ J' = S91(Cur)
  /\ Store(Leave(Cur)) /\ pc' = "idle"
  /\ UNCHANGED <<alpha, beta, max_iter, it, fn, calls, steps, applied, thetaIn, xIn,
                 thetaOld, xOld, y0, sw, theta0, x0, requested, alt>>

Next ==
  \/ GdCall \/ G79 \/ G80 \/ G81 \/ G82 \/ G83 \/ G84 \/ G85 \/ G86
  \/ CostCall \/ C89 \/ C90 \/ C91

Spec == Init /\ [][Next]_vars

TypeOK ==
  /\ pc \in {"idle", "g79", "g80", "g81", "g82", "g83", "g84", "g85", "g86",
             "c89", "c90", "c91"}
  /\ exc \in {"", "ValueError"}
  /\ it >= 0 /\ steps <= MaxSteps /\ calls <= MaxCalls

\* ------------------------------------------------------------------ claims
RECURSIVE FSum(_, _)
FSum(g, n) == IF n = 1 THEN g[1] ELSE FAdd(FSum(g, n - 1), g[n])

HasNaN(m) == \E i \in 1..Rows(m) : \E j \in 1..Cols(m) : IsNaN(m[i][j])

\* entry (u, i) of  th . xx^T - yy  before any masking
RawResidual(th, xx, yy, u, i) ==
  FSub(FSum([k \in 1..Cols(th) |-> FMul(th[u][k], xx[i][k])], Cols(th)), Bcast(yy, u, i))

AfterPass == pc = "g79" /\ it > 0

ShapeMismatch ==
  Cols(theta) # Cols(x) \/ Rows(theta) # Rows(y) \/ Rows(x) # Cols(y)

\* C1: when a pass of the loop has completed, tmp is the masked residual of the
\* theta and x the pass started from, x is  xOld - alpha (tmp^T thetaOld + beta xOld)
\* and theta is  thetaOld - alpha (tmp xOld + beta thetaOld) : the x of line 84 is
\* not used for theta.
C1_SimultaneousUpdate ==
  AfterPass =>
    /\ \A u \in 1..Rows(tmp) : \A i \in 1..Cols(tmp) :
         LET r == RawResidual(thetaOld, xOld, y, u, i)
         IN tmp[u][i] = IF IsNaN(r) THEN Fin(0) ELSE r
    /\ \A i \in 1..Rows(x) : \A k \in 1..Cols(x) :
         x[i][k] = FSub(xOld[i][k], FMul(Fin(alpha),
                     FAdd(FSum([u \in 1..Rows(tmp) |-> FMul(tmp[u][i], thetaOld[u][k])],
                               Rows(tmp)),
                          FMul(Fin(beta), xOld[i][k]))))
    /\ \A u \in 1..Rows(theta) : \A k \in 1..Cols(theta) :
         theta[u][k] = FSub(thetaOld[u][k], FMul(Fin(alpha),
                     FAdd(FSum([i \in 1..Cols(tmp) |-> FMul(tmp[u][i], xOld[i][k])],
                               Cols(tmp)),
                          FMul(Fin(beta), thetaOld[u][k]))))

C1_Witness ==
  /\ AfterPass /\ it = 2 /\ Rows(theta) = 2 /\ Rows(x) = 2
  /\ alpha # 0 /\ beta # 0 /\ HasNaN(y)
  /\ x # xOld /\ theta # thetaOld /\ ~AllZero(tmp)

\* C2: after the masking line of either function the residual is 0 exactly where
\* y is missing and  theta . x^T - y  everywhere else, NaN or infinite or not.
C2_MaskFollowsY ==
  (pc \in {"g82", "c91"} /\ ~ShapeMismatch) =>
    \A u \in 1..Rows(tmp) : \A i \in 1..Cols(tmp) :
      tmp[u][i] = IF IsNaN(y[u][i]) THEN Fin(0) ELSE RawResidual(theta, x, y, u, i)

\* C3: the number cost returns is half the sum, over the entries y has, of the
\* squared entries of  theta . x^T - y , and it is not negative.
C3_CostOverObserved ==
  (pc = "idle" /\ fn = "cost" /\ ~ShapeMismatch) =>
    /\ J = Half(SumSq([u \in 1..Rows(y) |-> [i \in 1..Cols(y) |->
                 IF IsNaN(y[u][i]) THEN Fin(0) ELSE RawResidual(theta, x, y, u, i)]]))
    /\ J.cls # "nan" /\ J.v >= 0

\* C4: with alpha = 0 and beta = 0 a call returns with theta and x as
\* they were when it was made.
C4_ZeroRateNoOp ==
  (pc = "g86" /\ alpha = 0 /\ beta = 0) => (theta = thetaIn /\ x = xIn)

\* C5: a gradient_descent call with alpha <= 0, beta < 0 or max_iter < 0 ends with
\* an InvalidConfig error and theta and x as they were.
C5_InvalidConfigRejected ==
  (pc = "idle" /\ fn = "gd" /\ (alpha <= 0 \/ beta < 0 \/ max_iter < 0)) =>
    (exc = "InvalidConfig" /\ theta = thetaIn /\ x = xIn)

\* C6: a cost or gradient_descent call on arrays of mismatched shapes ends with an
\* error and theta and x as they were.
C6_ShapeMismatchRejected ==
  (pc = "idle" /\ fn \in {"gd", "cost"} /\ ShapeMismatch) =>
    (exc # "" /\ theta = thetaIn /\ x = xIn)

\* C7: y is always the y of the initial state, and from a cost call until the
\* next gradient_descent call theta and x are what they were when cost was called.
C7_RatingsNeverChange ==
  /\ y = y0
  /\ (fn = "cost" => (theta = thetaIn /\ x = xIn))

C7_Witness ==
  /\ pc = "idle" /\ fn = "cost" /\ steps = 2 /\ HasNaN(y)
  /\ J.cls = "fin" /\ J.v > 0 /\ x # xOld

\* C8: a call that reaches its return statement has completed exactly max_iter
\* passes (none when max_iter <= 0, and then theta and x are as they were), and a
\* running call has never completed more passes than max_iter.
C8_ExactlyMaxIterPasses ==
  /\ (pc \in {"g79", "g80", "g81", "g82", "g83", "g84", "g85", "g86"}) =>
        (applied = it /\ applied <= Max(max_iter, 0))
  /\ (pc = "g86") =>
        /\ applied = Max(max_iter, 0)
        /\ (max_iter <= 0 => (theta = thetaIn /\ x = xIn))

C8_Witness ==
  /\ pc = "g86" /\ max_iter = 2 /\ applied = 2
  /\ AllZero(tmp) /\ AllZero(dx) /\ AllZero(dtheta) /\ alpha # 0

\* C9: between passes and between calls, the run started with theta and x swapped
\* and y transposed holds the same two matrices with their roles swapped and has
\* failed exactly when this run has; at the loop head, before the first pass and
\* after every pass, the two runs have the same cost.
C9_TransposeSymmetry ==
  /\ (pc \in {"g79", "g86", "idle"}) =>
        /\ sw.theta = x /\ sw.x = theta /\ sw.y = Transpose(y)
        /\ (fn = "gd" => sw.exc = exc)
  /\ (pc = "g79") => CostOf(sw) = CostOf(Cur)

C9_Witness ==
  /\ AfterPass /\ it = 2 /\ Rows(theta) # Rows(x)
  /\ alpha # 0 /\ beta # 0 /\ HasNaN(y)
  /\ theta # thetaIn /\ x # xIn /\ CostOf(Cur).cls = "fin" /\ CostOf(Cur).v > 0

\* C10: the masking of either function leaves an already masked residual as it
\* is, and the masked residual one function holds is the one the other function
\* computes from the same theta, x and y.
C10_MaskIdempotent ==
  /\ (pc = "g82") =>
        /\ S81(Cur).tmp = tmp
        /\ S90(S89(Leave(Cur))).tmp = tmp
  /\ (pc = "c91") =>
        /\ S90(Cur).tmp = tmp
        /\ S81(S80(Leave(Cur))).tmp = tmp

C10_Witness ==
  /\ pc = "g82" /\ HasNaN(y) /\ ~AllZero(tmp) /\ tmp # S80(Leave(Cur)).tmp

\* the activation of one call made in the initial state
Start(th, n) == [theta |-> th, x |-> x0, y |-> y0, max_iter |-> n, alpha |-> alpha,
                 beta |-> beta, tmp |-> Null, dx |-> Null, dtheta |-> Null, exc |-> ""]

\* C11: when a gradient_descent call has ended, theta and x are what a single gradient_descent call leaves
\* when made in the initial state with max_iter the sum of the (non-negative)
\* max_iter of the calls made so far, all with the same y, alpha and beta.
C11_CallsCompose ==
  (pc = "idle" /\ fn = "gd") =>
    LET r == GdOf(Start(theta0, requested), requested)
    IN theta = r.theta /\ x = r.x

C11_Witness ==
  /\ pc = "idle" /\ fn = "gd" /\ calls = 2 /\ max_iter = 1 /\ requested = 2 /\ steps = 2
  /\ alpha # 0 /\ theta # thetaIn /\ x # xIn /\ thetaIn # theta0 /\ xIn # x0

\* the users without any rating are apart:
\* their rows of theta are those of the initial state, and x, the other rows of
\* theta and the cost are those of the run started with other values in their rows
Isolated ==
  /\ \A u \in 1..Rows(theta) : AllMissing(y, u) => theta[u] = theta0[u]
  /\ x = alt.x
  /\ \A u \in 1..Rows(theta) : ~AllMissing(y, u) => theta[u] = alt.theta[u]
  /\ CostOf(Cur) = CostOf(alt)

\* the loop head of line 79: before the first pass and after every pass
BetweenPasses == pc = "g79"

\* C12 as stated: with beta = 0, after any number of passes the row of theta of a
\* user without any rating is its initial row, and x, the other rows of theta and
\* the cost do not depend on the initial values of that row.
C12_MissingUserIsolated ==
  (BetweenPasses /\ beta = 0 /\ ~ShapeMismatch) => Isolated

\* C12 amended: the same, as long as every entry of theta and x is finite.
C12_MissingUserIsolatedFinite ==
  (BetweenPasses /\ beta = 0 /\ ~ShapeMismatch /\ AllFinite(theta) /\ AllFinite(x)) =>
    Isolated

C12_Witness ==
  /\ pc = "g79" /\ it = 2 /\ beta = 0 /\ alpha # 0
  /\ Rows(theta) = 2 /\ Rows(x) = 2 /\ ~AllMissing(y, 1) /\ AllMissing(y, 2)
  /\ AllFinite(theta) /\ AllFinite(x)
  /\ theta0[2] # Const(1, 1, Fin(0))[1] /\ alt.theta[2] # theta[2]
  /\ theta[1] # theta0[1] /\ x # x0 /\ x # xOld
====
